---- MODULE Spec2Model ----
(***************************************************************************)
(* The generation layer of tts-with-logging.py: the module-level voice     *)
(* preload, generate_first, predict and the generator generate_all, run by *)
(* the event listeners the UI registers.                                   *)
(*                                                                         *)
(* A text is modelled by what the pipeline (the segmenter) yields for it:  *)
(* a sequence of phoneme strings, each given by its length.  A voice       *)
(* identifier is the pair <<language code, name>>, so that voice[1] is the *)
(* source's voice[0].  The speed factor is passed through unchanged by     *)
(* every function and is left out.                                         *)
(***************************************************************************)
EXTENDS Integers, Sequences, FiniteSets, TLC

\* Longest text, in segments.
MaxSeg == 3

\* ---------------------------------------------------------------- constants

CUDA_AVAILABLE == FALSE

\* The keys of the dict `models`: one model per entry of [False].
ModelKeys == {FALSE}

\* The keys of the dict `pipelines`: one pipeline per character of 'ab'.
PipelineKeys == {"a", "b"}

\* CHOICES.values(), in order (two of the 28 catalog voices).
CHOICES == << <<"a", "f_heart">>, <<"b", "f_emma">> >>

\* The voice identifiers a caller may pass: the catalog and one voice whose
\* language code has no pipeline.
VoiceIds == {CHOICES[i] : i \in 1..Len(CHOICES)} \cup { <<"z", "f_xiaoni">> }

SampleRate == 24000

\* The event listeners that run generation handlers, and the handler of each.
Listeners == {"generate_btn", "stream_btn", "predict_btn"}

HandlerOf(l) ==
    CASE l = "generate_btn" -> "generate_first"
      [] l = "stream_btn"   -> "generate_all"
      [] l = "predict_btn"  -> "predict"

\* Worker slots: each runs one request.
Procs == {"r1", "r2"}

\* ------------------------------------------------------------------- inputs

\* The phoneme string of the i-th segment: its position and its length.
PsOf(i) == [idx |-> i, len |-> (i % 2) + 1]

\* The texts: what the pipeline yields for them, 0..MaxSeg segments.
Texts == { [i \in 1..k |-> PsOf(i)] : k \in 0..MaxSeg }

\* What a call of a model can do: return audio, raise gr.exceptions.Error,
\* or raise anything else.
Outcomes == {"ok", "gr.Error", "other"}

\* ---------------------------------------------------------------- functions

\* pack[len(ps)-1]: the reference vector, named by its voice and index.
RefIndexOffByOne(ps) == ps.len

RefIndex(ps) == ps.len - 1

Ref(v, ps) == [voice |-> v, index |-> RefIndex(ps)]

\* The audio a model returns for (ps, ref_s), tagged by the model that ran.
Audio(gpu, ps, ref) == [model |-> gpu, ps |-> ps, ref |-> ref]

\* (24000, audio.numpy())
Chunk(a) == [rate |-> SampleRate, samples |-> a]

\* (24000, torch.zeros(1).numpy())
ZeroChunk == [rate |-> SampleRate, samples |-> "zeros(1)"]

\* use_gpu = use_gpu and CUDA_AVAILABLE
EffectiveGpuRequested(requested) == requested

EffectiveGpu(requested) == requested /\ CUDA_AVAILABLE

\* forward_gpu: models[True](ps, ref_s, speed); a KeyError when `models` has
\* no entry True.
forward_gpu(g) == IF TRUE \in ModelKeys THEN g ELSE "other"

\* The try/except of one segment.  g and c are what the accelerated and the
\* standard model do when called.  The result: the calls made, in order
\* (TRUE = models[True], FALSE = models[False]), the warnings shown, and the
\* audio or the error raised.
DispatchRetryCpu(use_gpu, g, c, ps, ref) ==
    [calls |-> IF c = "ok" THEN <<FALSE>> ELSE <<FALSE, FALSE>>,
     warnings |-> 0,
     ok |-> c = "ok",
     audio |-> Audio(FALSE, ps, ref)]

Dispatch(use_gpu, g, c, ps, ref) ==
    IF use_gpu
    THEN LET r == forward_gpu(g) IN
         IF r = "ok"
         THEN [calls |-> <<TRUE>>, warnings |-> 0, ok |-> TRUE,
               audio |-> Audio(TRUE, ps, ref)]
         ELSE IF r = "gr.Error"
         THEN [calls |-> <<TRUE, FALSE>>, warnings |-> 1, ok |-> c = "ok",
               audio |-> Audio(FALSE, ps, ref)]
         ELSE [calls |-> <<TRUE>>, warnings |-> 0, ok |-> FALSE,
               audio |-> Audio(TRUE, ps, ref)]
    ELSE [calls |-> <<FALSE>>, warnings |-> 0, ok |-> c = "ok",
          audio |-> Audio(FALSE, ps, ref)]

\* generate_all, after `yield 24000, audio.numpy()`: the zero buffer follows
\* when `first` is set.
YieldsZeroAlways(first) == TRUE

YieldsZero(first) == first

\* `yield 24000, audio.numpy()`: the generator hands the chunk over and stands
\* still until the consumer asks again.
YieldRunsOn == "iterate"

Yield == "yielded"

\* What generate_first returns when the pipeline yields nothing.
NoAudioNone == <<"None", "None">>

NoAudio == <<"None", "">>

\* The preload loop's except clause: the error is logged and the loop goes on.
PreloadReraises == "raise"

PreloadOnError == "log"

\* ------------------------------------------------------------------- state

VARIABLES
    phase,        \* "preload" | "serving" | "crashed"
    pi,           \* the preload loop's position in CHOICES
    voice_count,  \* voices the preload loaded
    preFailed,    \* voices whose preload raised (the errors logged)
    voices,       \* pipeline.voices: the packs loaded so far
    reads,        \* per voice, the storage reads started
    loadsOk,      \* per voice, the storage reads that returned a pack
    rq            \* per worker slot, the request it runs

vars == <<phase, pi, voice_count, preFailed, voices, reads, loadsOk, rq>>

Idle ==
    [pc |-> "idle", listener |-> "none", fn |-> "none", text |-> <<>>,
     voice |-> CHOICES[1], requested |-> FALSE, use_gpu |-> FALSE,
     segment_count |-> 0, first |-> TRUE, calls |-> <<>>, warnings |-> 0,
     out |-> <<>>, ret |-> <<>>, err |-> "none", pulls |-> 0,
     cancelled |-> FALSE]

Init ==
    /\ phase = "preload"
    /\ pi = 1
    /\ voice_count = 0
    /\ preFailed = {}
    /\ voices = {}
    /\ reads = [v \in VoiceIds |-> 0]
    /\ loadsOk = [v \in VoiceIds |-> 0]
    /\ rq = [p \in Procs |-> Idle]

store == <<voices, reads, loadsOk>>
startup == <<phase, pi, voice_count, preFailed>>

\* ------------------------------------------------------------------ preload

\* One pass of `for v in CHOICES.values()`: load_voice, counted, or its
\* error logged.  Nothing else runs during the import of the module.
Preload ==
    /\ phase = "preload"
    /\ pi <= Len(CHOICES)
    /\ LET v == CHOICES[pi] IN
       \E loaded \in BOOLEAN :
          /\ reads' = [reads EXCEPT ![v] = @ + 1]
          /\ IF loaded
             THEN /\ voices' = voices \cup {v}
                  /\ loadsOk' = [loadsOk EXCEPT ![v] = @ + 1]
                  /\ voice_count' = voice_count + 1
                  /\ preFailed' = preFailed
                  /\ phase' = phase
                  /\ pi' = pi + 1
             ELSE /\ UNCHANGED <<voices, loadsOk, voice_count>>
                  /\ preFailed' = preFailed \cup {v}
                  /\ IF PreloadOnError = "log"
                     THEN phase' = phase /\ pi' = pi + 1
                     ELSE phase' = "crashed" /\ pi' = pi
    /\ UNCHANGED rq

\* The loop is over: the UI is built and the application launched.
Launch ==
    /\ phase = "preload"
    /\ pi > Len(CHOICES)
    /\ phase' = "serving"
    /\ UNCHANGED <<pi, voice_count, preFailed, store, rq>>

\* ----------------------------------------------------------------- requests

Terminal == {"done", "error", "closed"}
Suspended == {"created", "yielded", "yielded_zero"}

Running(p) == rq[p].pc \notin Terminal \cup {"idle"}

\* pipeline = pipelines[voice[0]]: a KeyError when the language code has no
\* pipeline.
Enter(r) ==
    IF r.voice[1] \in PipelineKeys
    THEN [r EXCEPT !.pc = "load_voice"]
    ELSE [r EXCEPT !.pc = "error", !.err = "lookup"]

\* An event listener starts its handler on the caller's inputs.  A listener
\* runs one call at a time; different listeners run side by side.
\* generate_first and predict run up to the pipeline lookup; generate_all
\* only makes the generator.  predict passes use_gpu=False.
Call(p) ==
    /\ phase = "serving"
    /\ rq[p].pc = "idle"
    /\ \E l \in Listeners, t \in Texts, v \in VoiceIds, g \in BOOLEAN :
          /\ \A q \in Procs : Running(q) => rq[q].listener # l
          /\ l = "predict_btn" => g = FALSE
          /\ LET r == [Idle EXCEPT !.listener = l, !.fn = HandlerOf(l),
                                   !.text = t, !.voice = v, !.requested = g]
             IN rq' = [rq EXCEPT ![p] =
                          IF r.fn = "generate_all"
                          THEN [r EXCEPT !.pc = "created"]
                          ELSE Enter(r)]
    /\ UNCHANGED <<startup, store>>

\* pack = pipeline.load_voice(voice), the lookup in the packs already
\* loaded: a hit returns the pack, a miss goes on to read the storage.
\* With the pack, use_gpu = use_gpu and CUDA_AVAILABLE.
LoadVoice(p) ==
    /\ rq[p].pc = "load_voice"
    /\ IF rq[p].voice \in voices
       THEN /\ rq' = [rq EXCEPT ![p].pc = "iterate",
                                ![p].use_gpu = EffectiveGpu(rq[p].requested)]
            /\ UNCHANGED reads
       ELSE /\ rq' = [rq EXCEPT ![p].pc = "reading"]
            /\ reads' = [reads EXCEPT ![rq[p].voice] = @ + 1]
    /\ UNCHANGED <<startup, voices, loadsOk>>

\* The storage read of load_voice ends: the pack is kept and returned, or
\* the error is raised through the handler.
ReadVoice(p) ==
    /\ rq[p].pc = "reading"
    /\ \E loaded \in BOOLEAN :
          IF loaded
          THEN /\ voices' = voices \cup {rq[p].voice}
               /\ loadsOk' = [loadsOk EXCEPT ![rq[p].voice] = @ + 1]
               /\ rq' = [rq EXCEPT ![p].pc = "iterate",
                                   ![p].use_gpu = EffectiveGpu(rq[p].requested)]
          ELSE /\ rq' = [rq EXCEPT ![p].pc = "error", ![p].err = "load"]
               /\ UNCHANGED <<voices, loadsOk>>
    /\ UNCHANGED <<startup, reads>>

\* for _, ps, _ in pipeline(text, voice, speed): the next segment, or the end
\* of the loop: generate_first returns (None, ''), predict its first
\* component, generate_all ends.
NextSegment(p) ==
    /\ rq[p].pc = "iterate"
    /\ LET r == rq[p] IN
       rq' = [rq EXCEPT ![p] =
                 IF r.segment_count < Len(r.text)
                 THEN [r EXCEPT !.segment_count = @ + 1, !.pc = "dispatch"]
                 ELSE [r EXCEPT !.pc = "done",
                                !.ret = CASE r.fn = "generate_first" -> NoAudio
                                          [] r.fn = "predict" -> <<NoAudio[1]>>
                                          [] OTHER -> <<>>]]
    /\ UNCHANGED <<startup, store>>

\* The body of the loop for the segment in hand: the reference vector, the
\* try/except, then generate_first returns, generate_all yields the chunk.
Synthesize(p) ==
    /\ rq[p].pc = "dispatch"
    /\ \E g \in Outcomes, c \in Outcomes :
          LET r  == rq[p]
              ps == r.text[r.segment_count]
              d  == Dispatch(r.use_gpu, g, c, ps, Ref(r.voice, ps))
              made == [i \in 1..Len(d.calls) |->
                          [model |-> d.calls[i], segment |-> r.segment_count]]
              r1 == [r EXCEPT !.calls = @ \o made,
                              !.warnings = @ + d.warnings]
          IN rq' = [rq EXCEPT ![p] =
                       IF ~d.ok
                       THEN [r1 EXCEPT !.pc = "error", !.err = "synthesis"]
                       ELSE CASE r.fn = "generate_first" ->
                                   [r1 EXCEPT !.pc = "done",
                                              !.ret = <<Chunk(d.audio), ps>>]
                              [] r.fn = "predict" ->
                                   [r1 EXCEPT !.pc = "done",
                                              !.ret = <<Chunk(d.audio)>>]
                              [] OTHER ->
                                   [r1 EXCEPT !.pc = Yield,
                                              !.out = Append(@, Chunk(d.audio))]]
    /\ UNCHANGED <<startup, store>>

\* The consumer of generate_all asks for the next chunk: the generator runs
\* on from where it stands, the start of the function or a yield.
Pull(p) ==
    /\ rq[p].pc \in Suspended
    /\ LET r == [rq[p] EXCEPT !.pulls = @ + 1] IN
       rq' = [rq EXCEPT ![p] =
                 CASE r.pc = "created" -> Enter(r)
                   [] r.pc = "yielded" ->
                        IF YieldsZero(r.first)
                        THEN [r EXCEPT !.first = FALSE, !.pc = "yielded_zero",
                                       !.out = Append(@, ZeroChunk)]
                        ELSE [r EXCEPT !.pc = "iterate"]
                   [] OTHER -> [r EXCEPT !.pc = "iterate"]]
    /\ UNCHANGED <<startup, store>>

\* The consumer stops pulling (stop_btn cancels stream_event): the generator
\* is dropped where it stands.
Cancel(p) ==
    /\ rq[p].pc \in Suspended
    /\ rq' = [rq EXCEPT ![p].pc = "closed", ![p].cancelled = TRUE]
    /\ UNCHANGED <<startup, store>>

Next ==
    \/ Preload
    \/ Launch
    \/ \E p \in Procs :
          \/ Call(p)
          \/ LoadVoice(p)
          \/ ReadVoice(p)
          \/ NextSegment(p)
          \/ Synthesize(p)
          \/ Pull(p)
          \/ Cancel(p)

Spec == Init /\ [][Next]_vars

\* ------------------------------------------------------------------- claims

\* The audio of segment ps for voice v on the standard model, written out.
CpuChunk(v, ps) ==
    [rate |-> 24000,
     samples |-> [model |-> FALSE, ps |-> ps,
                  ref |-> [voice |-> v, index |-> ps.len - 1]]]

Silence == [rate |-> 24000, samples |-> "zeros(1)"]

\* The stream of the first n segments: audio 1, the silence marker, audio 2..n.
Stream(v, t, n) ==
    IF n = 0 THEN <<>>
    ELSE [i \in 1..(n + 1) |->
             IF i = 1 THEN CpuChunk(v, t[1])
             ELSE IF i = 2 THEN Silence
             ELSE CpuChunk(v, t[i - 1])]

\* The calls request r made to `model` for segment j.
CallsFor(r, model, j) ==
    {i \in DOMAIN r.calls : r.calls[i].model = model /\ r.calls[i].segment = j}

\* The request has got past load_voice.
PastLoad(r) ==
    \/ r.pc \in {"reading", "iterate", "dispatch", "yielded", "yielded_zero", "done"}
    \/ r.pc = "error" /\ r.err \in {"load", "synthesis"}

\* C1: a generate_all pulled to exhaustion over a text of k segments has
\* delivered audio 1, the silence marker, audio 2, ..., audio k, in segment
\* order: k+1 chunks when k >= 1, none when k = 0.
C1_StreamIsKPlusOne ==
    \A p \in Procs :
       LET r == rq[p] IN
       (r.fn = "generate_all" /\ r.pc = "done") =>
          /\ r.out = Stream(r.voice, r.text, Len(r.text))
          /\ Len(r.out) = IF Len(r.text) = 0 THEN 0 ELSE Len(r.text) + 1

C1_Witness ==
    \E p \in Procs :
       rq[p].fn = "generate_all" /\ rq[p].pc = "done" /\ Len(rq[p].text) >= 2

\* C3: when the standard model fails for segment j of a generate_all, it was
\* called once for that segment, no later segment was taken or synthesized,
\* and the consumer holds the chunks of segments 1..j-1 (with the silence
\* marker when j >= 2) and nothing more, from then on.
C3_FailureEndsStream ==
    \A p \in Procs :
       LET r == rq[p]
           j == r.segment_count
       IN (r.fn = "generate_all" /\ r.pc = "error" /\ r.err = "synthesis") =>
             /\ j >= 1
             /\ Cardinality(CallsFor(r, FALSE, j)) = 1
             /\ \A i \in DOMAIN r.calls : r.calls[i].segment <= j
             /\ r.out = Stream(r.voice, r.text, j - 1)

C3_Witness ==
    \E p \in Procs :
       /\ rq[p].fn = "generate_all" /\ rq[p].pc = "error"
       /\ rq[p].err = "synthesis" /\ rq[p].segment_count >= 2

\* C4: the accelerated model is called only for a request that asked for it
\* in a process where CUDA_AVAILABLE holds; predict never calls it.
C4_AcceleratedOnlyIfAvailable ==
    \A p \in Procs :
       LET r == rq[p] IN
       /\ \A i \in DOMAIN r.calls :
             r.calls[i].model = TRUE => (r.requested /\ CUDA_AVAILABLE)
       /\ r.fn = "predict" =>
             (~r.use_gpu /\ \A i \in DOMAIN r.calls : r.calls[i].model = FALSE)

C4_Witness ==
    \E p \in Procs :
       /\ rq[p].requested /\ rq[p].pc = "done" /\ rq[p].calls # <<>>
       /\ \E q \in Procs : rq[q].fn = "predict" /\ rq[q].calls # <<>>

\* C5, as stated, for the voices of the catalog (a voice whose preload failed
\* among them): generate_first on a text of no segments ends by returning
\* (None, '') with no model called, and never by raising.
C5_EmptyNeverRaises ==
    \A p \in Procs :
       LET r == rq[p] IN
       (/\ r.fn = "generate_first" /\ Len(r.text) = 0
        /\ r.voice[1] \in {"a", "b"} /\ r.pc \in Terminal) =>
          (r.pc = "done" /\ r.ret = <<"None", "">> /\ r.calls = <<>>)

\* C5, amended: generate_first on a text of no segments calls no model; when
\* it returns it returns (None, ''); it raises only the pipeline lookup's
\* error (a language code without pipeline) or load_voice's error.
C5_EmptyReturnsNoneOrLoadError ==
    \A p \in Procs :
       LET r == rq[p] IN
       (r.fn = "generate_first" /\ Len(r.text) = 0) =>
          /\ r.calls = <<>>
          /\ r.segment_count = 0
          /\ r.pc = "done" => r.ret = <<"None", "">>
          /\ r.pc = "error" =>
                \/ r.err = "lookup" /\ r.voice[1] \notin {"a", "b"}
                \/ r.err = "load" /\ r.voice[1] \in {"a", "b"}

C5_Witness ==
    \E p \in Procs :
       /\ rq[p].fn = "generate_first" /\ Len(rq[p].text) = 0
       /\ rq[p].pc = "done" /\ rq[p].voice \in preFailed

\* C6, as stated: no voice is read from storage into a pack more than once,
\* however requests and the preload interleave.
C6_AtMostOneLoadPerVoice ==
    \A v \in VoiceIds : loadsOk[v] <= 1

\* The branch of the try/except that calls forward_gpu is never taken: no
\* request runs with use_gpu set, and no warning is ever shown.
AcceleratedNeverSelected ==
    \A p \in Procs : ~rq[p].use_gpu /\ rq[p].warnings = 0

\* C7: generate_all takes segment i+1 from the pipeline only after the
\* consumer has pulled past every chunk of segment i (the silence marker
\* after segment 1 included), and once the consumer has stopped pulling no
\* segment is taken and no model called for that request.
C7_Paced ==
    \A p \in Procs :
       LET r == rq[p]
           allowed == IF r.pulls <= 1 THEN r.pulls ELSE r.pulls - 1
       IN r.fn = "generate_all" =>
             /\ r.segment_count <= allowed
             /\ \A i \in DOMAIN r.calls : r.calls[i].segment <= allowed
             /\ Len(r.out) <= r.pulls

C7_Abandoned ==
    \A p \in Procs :
       rq[p].cancelled =>
          /\ rq'[p].segment_count = rq[p].segment_count
          /\ rq'[p].calls = rq[p].calls
          /\ rq'[p].out = rq[p].out

C7_PullBased == [](C7_Paced) /\ [][C7_Abandoned]_vars

C7_Witness ==
    \E p \in Procs :
       /\ rq[p].cancelled /\ rq[p].segment_count >= 1
       /\ rq[p].segment_count < Len(rq[p].text)
       /\ \E q \in Procs : rq[q].fn = "generate_all" /\ rq[q].segment_count >= 3

\* C8: generate_first takes one segment at most: for a text of k >= 1
\* segments it returns the audio of segment 1 made with pack[len(ps)-1] and
\* the phoneme string of segment 1, and neither takes nor synthesizes
\* segments 2..k.
C8_FirstSegmentOnly ==
    \A p \in Procs :
       LET r == rq[p] IN
       r.fn \in {"generate_first", "predict"} =>
          /\ r.segment_count <= 1
          /\ \A i \in DOMAIN r.calls : r.calls[i].segment = 1
          /\ Len(r.calls) <= 1
          /\ r.out = <<>>
          /\ (r.pc = "done" /\ Len(r.text) >= 1) =>
                /\ r.ret[1] = CpuChunk(r.voice, r.text[1])
                /\ r.fn = "generate_first" => r.ret = <<r.ret[1], r.text[1]>>

C8_Witness ==
    \E p \in Procs :
       rq[p].fn = "generate_first" /\ rq[p].pc = "done" /\ Len(rq[p].text) >= 2

\* C9: the preload tries every voice of CHOICES, a failure stops neither the
\* loop nor the launch; a request for a voice whose preload failed has the
\* storage read again, and a failed read on demand ends the request with
\* the error, nothing synthesized or returned.
C9_PreloadSkipsFailures ==
    /\ phase # "crashed"
    /\ phase = "serving" =>
          \A i \in 1..Len(CHOICES) :
             /\ reads[CHOICES[i]] >= 1
             /\ CHOICES[i] \notin preFailed => CHOICES[i] \in voices
    /\ voice_count + Cardinality(preFailed) = pi - 1
    /\ \A p \in Procs :
          LET r == rq[p] IN
          /\ (r.voice \in preFailed /\ PastLoad(r)) => reads[r.voice] >= 2
          /\ (r.pc = "error" /\ r.err = "load") =>
                (r.calls = <<>> /\ r.out = <<>> /\ r.ret = <<>>)

C9_Witness ==
    /\ phase = "serving"
    /\ CHOICES[1] \in preFailed
    /\ CHOICES[2] \in voices
    /\ \E p \in Procs :
          rq[p].voice = CHOICES[1] /\ rq[p].pc = "error" /\ rq[p].err = "load"
    /\ \E q \in Procs :
          rq[q].voice = CHOICES[1] /\ rq[q].pc = "done" /\ rq[q].ret # <<>>

====
